---- MODULE Spec2Model ----
(***************************************************************************)
(* A model of the Swift domain of anarchy_sphinx (swift_domain/swift.py):  *)
(* the signature parsers of the directives, the symbol table               *)
(* env.domaindata['swift']['objects'], the ambient container slot          *)
(* env.temp_data['swift:class'], clear_doc, resolve_xref and the module    *)
(* index SwiftModuleIndex.                                                 *)
(*                                                                         *)
(* A Python str is a sequence of one-character strings, so that slicing,   *)
(* find, split and strip are computed as the code computes them.  An       *)
(* optional value is a sequence of length at most one: None is <<>> and a  *)
(* present value v is <<v>>.                                               *)
(*                                                                         *)
(* The string primitives and the parsers are functions, f[x], so that an   *)
(* argument is evaluated once, when the function is applied.               *)
(***************************************************************************)
EXTENDS Integers, Sequences, FiniteSets, TLC

(***************************************************************************)
(* Python str and list primitives used by swift.py                         *)
(***************************************************************************)

\* str
Str == Seq(STRING)

\* list of str
StrList == Seq(Str)

None == <<>>

Some(v) == <<v>>

\* an optional str: None or Some(s)
OptStr == Seq(Str)

\* the characters str.strip() removes
Whitespace == {" ", "\t", "\n", "\r", "\f"}

\* a slice bound as Python normalises it for a sequence of length n
SliceBound[i \in Int, n \in Nat] ==
    IF i < 0 THEN (IF i + n < 0 THEN 0 ELSE i + n) ELSE (IF i < n THEN i ELSE n)

\* s[a:b], 0-based, negative bounds counted from the end
Slice[s \in Str, a \in Int, b \in Int] ==
    IF SliceBound[b, Len(s)] <= SliceBound[a, Len(s)] THEN <<>>
    ELSE SubSeq(s, SliceBound[a, Len(s)] + 1, SliceBound[b, Len(s)])

\* s[a:]
SliceFrom[s \in Str, a \in Int] == Slice[s, a, Len(s)]

\* s.startswith(p)
StartsWith[s \in Str, p \in Str] == Len(p) <= Len(s) /\ SubSeq(s, 1, Len(p)) = p

\* s.endswith(p)
EndsWith[s \in Str, p \in Str] ==
    Len(p) <= Len(s) /\ SubSeq(s, Len(s) - Len(p) + 1, Len(s)) = p

\* the 0-based positions at which sub occurs in s
Occurrences[s \in Str, sub \in Str] ==
    {i \in 0..(Len(s) - Len(sub)) : SubSeq(s, i + 1, i + Len(sub)) = sub}

\* the least and the greatest member of a set of positions, -1 for none
Least[occ \in SUBSET Nat] ==
    IF occ = {} THEN -1 ELSE CHOOSE i \in occ : \A j \in occ : i <= j

Greatest[occ \in SUBSET Nat] ==
    IF occ = {} THEN -1 ELSE CHOOSE i \in occ : \A j \in occ : j <= i

\* s.find(sub): the first 0-based position of sub in s, -1 when absent
Find[s \in Str, sub \in Str] == Least[Occurrences[s, sub]]

\* s.rfind(sub): the last 0-based position of sub in s, -1 when absent
RFind[s \in Str, sub \in Str] == Greatest[Occurrences[s, sub]]

\* sub in s
Contains[s \in Str, sub \in Str] == Occurrences[s, sub] # {}

\* s.count(sub) for a one-character sub
Count[s \in Str, sub \in Str] == Cardinality(Occurrences[s, sub])

LStrip[s \in Str] == IF s # <<>> /\ Head(s) \in Whitespace THEN LStrip[Tail(s)] ELSE s

RStrip[s \in Str] ==
    IF s # <<>> /\ s[Len(s)] \in Whitespace THEN RStrip[SubSeq(s, 1, Len(s) - 1)] ELSE s

\* s.strip()
Strip[s \in Str] == RStrip[LStrip[s]]

\* [x.strip() for x in l]
StripEach[l \in StrList] == [i \in 1..Len(l) |-> Strip[l[i]]]

\* the two pieces of s around the separator found at the 0-based position i,
\* the one piece s when i is -1
CutAt[s \in Str, i \in Int, sep \in Str] ==
    IF i = -1 THEN <<s>> ELSE <<Slice[s, 0, i], SliceFrom[s, i + Len(sep)]>>

\* s.split(sep, 1): at most one split, at the first sep
Split1[s \in Str, sep \in Str] == CutAt[s, Find[s, sep], sep]

\* s.rsplit(sep, 1): at most one split, at the last sep
RSplit1[s \in Str, sep \in Str] == CutAt[s, RFind[s, sep], sep]

\* a list of pieces whose last one is split further
SplitLast[l \in StrList, sep \in Str] ==
    IF Len(l) = 1 THEN l ELSE <<l[1]>> \o SplitLast[Split1[l[2], sep], sep]

\* s.split(sep): every piece, empty ones included
Split[s \in Str, sep \in Str] == SplitLast[Split1[s, sep], sep]

\* sep.join(l)
Join[sep \in Str, l \in StrList] ==
    IF l = <<>> THEN <<>>
    ELSE IF Len(l) = 1 THEN l[1]
    ELSE l[1] \o sep \o Join[sep, Tail(l)]

\* the first 0-based index of an element of l equal to v, -1 when absent
IndexOf[l \in StrList, v \in Str] == Least[{i \in 0..(Len(l) - 1) : l[i + 1] = v}]

(***************************************************************************)
(* SwiftClass.handle_signature: class, struct, enum, protocol, extension   *)
(* and default_impl directives                                             *)
(***************************************************************************)

\* the outcome of a call that raised ValueError instead of returning
ValueError == [exc |-> "ValueError"]

Raised(r) == r.exc # "none"

\* `if x:` for an optional string: None and the empty string are both false
Truthy(opt) == opt # None /\ opt[1] # <<>>

\* the name qualified by the ambient container, when one is set
Qualify[container \in OptStr, name \in Str] ==
    IF Truthy(container) THEN container[1] \o <<".">> \o name ELSE name

\* a faulty add_to_index, which forgets the rule for extensions
ShouldIndexAlways(objtype, super_classes) == TRUE

\* add_to_index: everything but an extension that declares no super type
ShouldIndex(objtype, super_classes) ==
    ~(objtype = <<"e", "x", "t", "e", "n", "s", "i", "o", "n">> /\ (super_classes = None \/ super_classes[1] = <<>>))

\* the list of super classes cut at the 0-based index of its first element
\* that is the token `where`, whole when index is -1
CutAtWhere[all \in StrList, index \in Int] ==
    IF index = -1
    THEN [super_classes |-> all, type_constraint |-> None]
    ELSE [super_classes |-> SubSeq(all, 1, index),
          type_constraint |-> Some(Join[<<" ">>, SubSeq(all, index + 1, Len(all))])]

\* the super class list of the text after the `:`
SuperClasses[text \in Str] ==
    CutAtWhere[StripEach[Split[text, <<",">>]],
               IndexOf[StripEach[Split[text, <<",">>]], <<"w", "h", "e", "r", "e">>]]

\* handle_signature from the parts around the first `:` on
ClassFromParts[parts \in StrList, objtype \in Str, container \in OptStr] ==
    LET hasGeneric == Contains[parts[1], <<"<">>]
        pieces == Split[parts[1], <<"<">>]
    IN  IF hasGeneric /\ Len(pieces) # 2
        THEN ValueError   \* class_name, generic_type = parts[0].split('<')
        ELSE
        LET class_name0 == IF hasGeneric THEN pieces[1] ELSE parts[1]
            generic_type == IF hasGeneric THEN Some(Slice[pieces[2], 0, -1]) ELSE None
            class_parts ==
                IF Contains[class_name0, <<" ">>] THEN Split[class_name0, <<" ">>]
                ELSE IF Contains[class_name0, <<"\t">>] THEN Split[class_name0, <<"\t">>]
                ELSE <<>>
            index == IndexOf[class_parts, <<"w", "h", "e", "r", "e">>]
            found == index # -1
            \* parts.pop() takes the last part away, also when it is the only one
            constraint0 ==
                IF found
                THEN Some(Join[<<" ">>, SubSeq(class_parts, index + 1, Len(class_parts))]
                          \o <<":", " ">> \o parts[Len(parts)])
                ELSE None
            class_name1 == IF found THEN Join[<<" ">>, SubSeq(class_parts, 1, index)]
                           ELSE class_name0
            parts1 == IF found THEN SubSeq(parts, 1, Len(parts) - 1) ELSE parts
            class_name == IF Count[class_name1, <<".">>] # 0
                          THEN Split[class_name1, <<".">>][Len(Split[class_name1, <<".">>])]
                          ELSE class_name1
            supers == IF Len(parts1) > 1
                      THEN SuperClasses[parts1[2]]
                      ELSE [super_classes |-> None, type_constraint |-> constraint0]
            super_classes == IF Len(parts1) > 1 THEN Some(supers.super_classes) ELSE None
            type_constraint == IF Len(parts1) > 1 /\ supers.type_constraint # None
                               THEN supers.type_constraint ELSE constraint0
            fullname == objtype \o <<" ">> \o Qualify[container, class_name]
        IN  [exc |-> "none",
             name |-> class_name,
             generic_clause |-> generic_type,
             super_classes |-> super_classes,
             type_constraint |-> type_constraint,
             fullname |-> fullname,
             signature |-> fullname,
             add_to_index |-> ShouldIndex(objtype, super_classes)]

ClassHandleSignature(sig, objtype, container) ==
    ClassFromParts[StripEach[Split1[sig, <<":">>]], objtype, container]

(***************************************************************************)
(* SwiftClassmember._parse_parameter_list                                  *)
(***************************************************************************)

\* the bracket pairs counted by `parens`, one counter per pair
Brackets == <<<<"[", "]">>, <<"(", ")">>, <<"<", ">">>>>

Parens == [1..Len(Brackets) -> Int]

NoParens == [k \in 1..Len(Brackets) |-> 0]

\* the counters after the character c: an opener adds one, a closer takes one
CountParens[parens \in Parens, c \in STRING] ==
    [k \in 1..Len(Brackets) |->
        parens[k] + (IF c = Brackets[k][1] THEN 1 ELSE 0)
                  - (IF c = Brackets[k][2] THEN 1 ELSE 0)]

\* a faulty test, which keeps one depth for the three kinds of bracket
SkipCommaOneDepth(parens) == parens[1] + parens[2] + parens[3] # 0

\* a comma is skipped while any of the counters is not zero
SkipComma(parens) == \E k \in 1..Len(Brackets) : parens[k] # 0

\* the loop over the characters of parameter_list, from the 0-based position i
SplitLoop[text \in Str, i \in Nat, parens \in Parens, last_split \in Nat, parameters \in StrList] ==
    IF i >= Len(text)
    THEN Append(parameters, Strip[SliceFrom[text, last_split]])
    ELSE IF text[i + 1] = "," /\ ~SkipComma(CountParens[parens, text[i + 1]])
    THEN SplitLoop[text, i + 1, CountParens[parens, text[i + 1]], i + 1,
                   Append(parameters, Strip[Slice[text, last_split, i]])]
    ELSE SplitLoop[text, i + 1, CountParens[parens, text[i + 1]], last_split, parameters]

\* the comma-delimited chunks of a parameter list
SplitParameters(parameter_list) == SplitLoop[parameter_list, 0, NoParens, 0, <<>>]

\* one Parameter from its name part, split at the first space, and the rest
\* with its last `=` at the 0-based position equals
MakeParameter[name_parts \in StrList, rest \in Str, equals \in Int] ==
    [name |-> name_parts[1],
     variable_name |-> IF Len(name_parts) > 1 THEN name_parts[2] ELSE name_parts[1],
     type |-> IF equals >= 0 THEN Strip[Slice[rest, 0, equals]] ELSE rest,
     default |-> IF equals >= 0 THEN Some(Strip[SliceFrom[rest, equals + 1]]) ELSE None]

\* one Parameter from the stripped pieces of a chunk around its first `:`
ParameterFromPieces[pieces \in StrList] ==
    MakeParameter[Split1[pieces[1], <<" ">>], pieces[2], RFind[pieces[2], <<"=">>]]

\* one chunk with a `:` as a Parameter
ParseParameter(parameter) == ParameterFromPieces[StripEach[Split1[parameter, <<":">>]]]

\* the result loop over the chunks
ParametersFromChunks[chunks \in StrList] ==
    IF \E i \in 1..Len(chunks) : ~Contains[chunks[i], <<":">>]
    THEN ValueError   \* name, rest = [x.strip() for x in parameter.split(':', 1)]
    ELSE [exc |-> "none",
          parameters |-> [i \in 1..Len(chunks) |-> ParseParameter(chunks[i])]]

ParseParameterList(parameter_list) == ParametersFromChunks[SplitParameters(parameter_list)]

(***************************************************************************)
(* SwiftClassmember.handle_signature: function, method, class_method,      *)
(* static_method and init directives                                       *)
(***************************************************************************)

\* a Parameter
Parameter == [name : Str, variable_name : Str, type : Str, default : OptStr]

\* the loop that finds where the parenthesis depth is zero: the 0-based
\* position of that character, -1 when the loop ends without a break
DepthZero[rest \in Str, i \in Nat, depth \in Int] ==
    IF i >= Len(rest) THEN -1
    ELSE IF rest[i + 1] = "("
    THEN (IF depth + 1 = 0 THEN i ELSE DepthZero[rest, i + 1, depth + 1])
    ELSE IF rest[i + 1] = ")"
    THEN (IF depth - 1 = 0 THEN i ELSE DepthZero[rest, i + 1, depth - 1])
    ELSE (IF depth = 0 THEN i ELSE DepthZero[rest, i + 1, depth])

\* a faulty label, which writes both names even when they are equal
ParameterLabelBoth(p) == p.name \o <<" ">> \o p.variable_name \o <<":">>

\* one parameter as the canonical signature shows it
ParameterLabel(p) ==
    IF p.name = p.variable_name THEN p.name \o <<":">>
    ELSE p.name \o <<" ">> \o p.variable_name \o <<":">>

\* the loop `for p in parameters: signature += ...`
AppendLabels[signature \in Str, parameters \in Seq(Parameter)] ==
    IF parameters = <<>> THEN signature
    ELSE AppendLabels[signature \o ParameterLabel(Head(parameters)), Tail(parameters)]

\* signature: `init(` or the method name and `(`, the labels, `)`
BuildSignature(objtype, method_name, parameters) ==
    AppendLabels[(IF objtype = <<"i", "n", "i", "t">> THEN <<"i", "n", "i", "t">> ELSE method_name) \o <<"(">>,
                 parameters] \o <<")">>

\* the triple handle_signature returns for the canonical signature
MemberResult[method_name \in Str, generics \in OptStr, parameters \in Seq(Parameter), rest \in Str, signature \in Str, container \in OptStr] ==
    [exc |-> "none",
     name |-> method_name,
     generics |-> generics,
     parameters |-> parameters,
     throws |-> Find[rest, <<"t", "h", "r", "o", "w", "s">>] >= 0,
     return_type |-> IF Find[rest, <<"-", ">">>] >= 0
                     THEN Some(Strip[SliceFrom[rest, Find[rest, <<"-", ">">>] + 2]])
                     ELSE None,
     fullname |-> Qualify[container, signature],
     signature |-> Qualify[container, signature],
     add_to_index |-> TRUE]

\* what _parse_parameter_list gives: the parameters, or the ValueError
ParsedParameters == [exc : {"ValueError"}] \cup [exc : {"none"}, parameters : Seq(Parameter)]

\* handle_signature from the parsed parameter list on
MemberFromParameters[method_name \in Str, generics \in OptStr, parsed \in ParsedParameters, rest \in Str, objtype \in Str, container \in OptStr] ==
    IF Raised(parsed) THEN ValueError
    ELSE MemberResult[method_name, generics, parsed.parameters, rest,
                      BuildSignature(objtype, method_name, parsed.parameters), container]

\* handle_signature from the split parameter list on: rest0 is the text from
\* the split point, close the 0-based position in it where the depth is zero
MemberFromRest[method_name \in Str, generics \in OptStr, rest0 \in Str, close \in Int, objtype \in Str, container \in OptStr] ==
    MemberFromParameters[
        method_name, generics,
        IF close >= 0 /\ Len(Slice[rest0, 1, close]) > 0
        THEN ParseParameterList(Slice[rest0, 1, close])
        ELSE [exc |-> "none", parameters |-> <<>>],
        IF close >= 0 THEN SliceFrom[rest0, close + 1] ELSE rest0,
        objtype, container]

\* sig[0:split_point] without a method specialization
MethodName[method_name \in Str] ==
    IF Find[method_name, <<"<">>] >= 0 THEN Slice[method_name, 0, Find[method_name, <<"<">>]]
    ELSE method_name

\* the generics: from the first `<` through the first `>` after it
Generics[sig \in Str, first_anglebracket \in Int] ==
    IF first_anglebracket >= 0
    THEN Some(Slice[SliceFrom[sig, first_anglebracket], 0,
                    Find[SliceFrom[sig, first_anglebracket], <<">">>] + 1])
    ELSE None

\* handle_signature from the split point on
MemberFromSplit[sig \in Str, split_point \in Int, objtype \in Str, container \in OptStr] ==
    MemberFromRest[MethodName[Slice[sig, 0, split_point]],
                   Generics[sig, Find[sig, <<"<">>]],
                   SliceFrom[sig, split_point],
                   DepthZero[SliceFrom[sig, split_point], 0, 0],
                   objtype, container]

\* where the method name ends
SplitPoint[sig \in Str] ==
    IF Find[sig, <<"<">>] >= 0 /\ Find[sig, <<"(">>] > Find[sig, <<"<">>]
    THEN Find[sig, <<">">>] + 1
    ELSE Find[sig, <<"(">>]

MemberHandleSignature(sig, objtype, container) ==
    MemberFromSplit[sig, SplitPoint[sig], objtype, container]

(***************************************************************************)
(* SwiftEnumCase.handle_signature: the enum_case directive                 *)
(***************************************************************************)

\* the triple handle_signature returns
EnumCaseResult[enum_case \in Str, assoc_value \in OptStr, raw_value \in OptStr, container \in OptStr] ==
    [exc |-> "none",
     case_name |-> enum_case,
     associated_value_clause |-> assoc_value,
     raw_value |-> raw_value,
     fullname |-> Qualify[container, enum_case],
     signature |-> Qualify[container, enum_case],
     add_to_index |-> TRUE]

\* a signature with a `(`: payload is the text after it, split at its last `=`
EnumCaseWithPayload[enum_case \in Str, payload \in StrList, container \in OptStr] ==
    EnumCaseResult[enum_case,
                   IF Strip[payload[1]] = <<>> THEN None
                   ELSE Some(<<"(">> \o Strip[payload[1]]),
                   IF Len(payload) > 1 THEN Some(Strip[payload[2]]) ELSE None,
                   container]

\* a signature without a `(`: plain is its stripped pieces around the first `=`
EnumCasePlain[plain \in StrList, container \in OptStr] ==
    EnumCaseResult[Strip[plain[1]],
                   None,
                   IF Len(plain) > 1 THEN Some(Strip[plain[2]]) ELSE None,
                   container]

\* handle_signature from the stripped parts around the first `(` on
EnumCaseFromParts[sig \in Str, parts \in StrList, container \in OptStr] ==
    IF Len(parts) > 1
    THEN EnumCaseWithPayload[Strip[parts[1]], RSplit1[parts[2], <<"=">>], container]
    ELSE EnumCasePlain[StripEach[Split1[sig, <<"=">>]], container]

\* a faulty enum case parser, which splits the payload at its first `=`
EnumCaseFirstEquals(sig, container) ==
    IF Len(StripEach[Split1[sig, <<"(">>]]) > 1
    THEN EnumCaseWithPayload[Strip[StripEach[Split1[sig, <<"(">>]][1]],
                             Split1[StripEach[Split1[sig, <<"(">>]][2], <<"=">>], container]
    ELSE EnumCasePlain[StripEach[Split1[sig, <<"=">>]], container]

\* SwiftEnumCase.handle_signature
EnumCaseHandleSignature(sig, container) ==
    EnumCaseFromParts[sig, StripEach[Split1[sig, <<"(">>]], container]

(***************************************************************************)
(* The symbol table env.domaindata['swift']['objects']: a dict, which      *)
(* Python 3 iterates in insertion order, so it is a sequence of entries    *)
(* with distinct refnames.  Assigning to a key that is present replaces    *)
(* the value where it stands; a new key goes to the end.                   *)
(***************************************************************************)

\* a table entry: the key fullname and the (docname, objtype, signature) kept
\* under it
Object == [refname : Str, docname : STRING, type : Str, signature : Str]

\* a duplicate warning: the key and the document of the other instance
Warning == [fullname : Str, other : STRING]

\* the table, the ids of the document being read and the warnings reported
TableState == [objects : Seq(Object), ids : SUBSET Str, warnings : Seq(Warning)]

\* the 1-based position of the entry with key fullname, 0 when absent
KeyIndex(objects, fullname) ==
    IF \E i \in 1..Len(objects) : objects[i].refname = fullname
    THEN CHOOSE i \in 1..Len(objects) : objects[i].refname = fullname
    ELSE 0

HasKey(objects, fullname) == KeyIndex(objects, fullname) # 0

\* objects[fullname] = (docname, objtype, signature)
SetItem(objects, fullname, docname, objtype, signature) ==
    IF HasKey(objects, fullname)
    THEN [objects EXCEPT ![KeyIndex(objects, fullname)] =
            [refname |-> fullname, docname |-> docname,
             type |-> objtype, signature |-> signature]]
    ELSE Append(objects, [refname |-> fullname, docname |-> docname,
                          type |-> objtype, signature |-> signature])

\* SwiftObjectDescription.add_target_and_index: the table, the ids of the
\* document being read and the warnings after the call
AddTargetAndIndex(st, docname, objtype, fullname, signature, add_to_index, noindex) ==
    IF noindex \/ ~add_to_index THEN st
    ELSE IF fullname \notin st.ids
    THEN [st EXCEPT !.ids = st.ids \cup {signature},
                    !.objects = SetItem(st.objects, fullname, docname, objtype, signature)]
    ELSE [st EXCEPT !.warnings =
            Append(st.warnings,
                   [fullname |-> fullname,
                    other |-> st.objects[KeyIndex(st.objects, fullname)].docname])]

\* del objects[fullname]
DelItem(objects, fullname) == SelectSeq(objects, LAMBDA e : e.refname # fullname)

\* the loop of SwiftDomain.clear_doc over a copy of the items, from the
\* 1-based position i of the copy
RECURSIVE ClearDocLoop(_, _, _, _)
ClearDocLoop(items, i, objects, docname) ==
    IF i > Len(items) THEN objects
    ELSE IF items[i].docname = docname
    THEN ClearDocLoop(items, i + 1, DelItem(objects, items[i].refname), docname)
    ELSE ClearDocLoop(items, i + 1, objects, docname)

\* a faulty clear_doc, which deletes while it walks the table itself and so
\* steps over the entry that follows each one it deletes
RECURSIVE ClearDocSkipping(_, _)
ClearDocSkipping(objects, docname) ==
    IF objects = <<>> THEN <<>>
    ELSE IF Head(objects).docname = docname
    THEN (IF Len(objects) = 1 THEN <<>>
          ELSE <<objects[2]>> \o ClearDocSkipping(SubSeq(objects, 3, Len(objects)), docname))
    ELSE <<Head(objects)>> \o ClearDocSkipping(Tail(objects), docname)

\* SwiftDomain.clear_doc
ClearDocObjects(objects, docname) == ClearDocLoop(objects, 1, objects, docname)

(***************************************************************************)
(* SwiftDomain.resolve_xref                                                *)
(***************************************************************************)

type_order == <<<<"c", "l", "a", "s", "s">>, <<"s", "t", "r", "u", "c", "t">>, <<"e", "n", "u", "m">>, <<"p", "r", "o", "t", "o", "c", "o", "l">>, <<"e", "x", "t", "e", "n", "s", "i", "o", "n">>>>

swift_reserved ==
    {<<"I", "n", "t">>, <<"D", "o", "u", "b", "l", "e">>, <<"F", "l", "o", "a", "t">>, <<"S", "t", "r", "i", "n", "g">>, <<"B", "o", "o", "l">>, <<"A", "n", "y">>, <<"E", "q", "u", "a", "t", "a", "b", "l", "e">>,
     <<"C", "G", "F", "l", "o", "a", "t">>,
     <<"U", "I", "L", "a", "b", "e", "l">>, <<"U", "I", "I", "m", "a", "g", "e", "V", "i", "e", "w">>, <<"U", "I", "C", "o", "l", "o", "r">>, <<"U", "I", "I", "m", "a", "g", "e">>, <<"U", "I", "B", "u", "t", "t", "o", "n">>,
     <<"U", "I", "T", "e", "x", "t", "F", "i", "e", "l", "d">>, <<"U", "I", "C", "o", "n", "t", "r", "o", "l">>, <<"U", "I", "S", "l", "i", "d", "e", "r">>,
     <<"G", "L", "K", "V", "i", "e", "w">>,
     <<"C", "L", "L", "o", "c", "a", "t", "i", "o", "n">>,
     <<"I", "n", "t", "1", "6">>, <<"I", "n", "t", "3", "2">>, <<"I", "n", "t", "6", "4">>,
     <<"U", "I", "n", "t", "1", "6">>, <<"U", "I", "n", "t", "3", "2">>, <<"U", "I", "n", "t", "6", "4">>}

UpperCase == <<"A", "B", "C", "D", "E", "F", "G", "H", "I", "J", "K", "L", "M", "N", "O", "P", "Q", "R", "S", "T", "U", "V", "W", "X", "Y", "Z">>

LowerCase == <<"a", "b", "c", "d", "e", "f", "g", "h", "i", "j", "k", "l", "m", "n", "o", "p", "q", "r", "s", "t", "u", "v", "w", "x", "y", "z">>

\* c.lower() for one character
LowerChar[c \in STRING] ==
    IF \E k \in 1..Len(UpperCase) : UpperCase[k] = c
    THEN LowerCase[CHOOSE k \in 1..Len(UpperCase) : UpperCase[k] = c]
    ELSE c

\* s.lower()
Lower[s \in Str] == [i \in 1..Len(s) |-> LowerChar[s[i]]]

\* a faulty unwrapping, which takes the brackets off after a sigil as well
UnwrapBoth(target) ==
    IF EndsWith[target, <<"?">>] \/ EndsWith[target, <<"!">>]
    THEN (IF StartsWith[target, <<"[">>] /\ EndsWith[Slice[target, 0, -1], <<"]">>]
          THEN Slice[target, 1, -2] ELSE Slice[target, 0, -1])
    ELSE IF StartsWith[target, <<"[">>] /\ EndsWith[target, <<"]">>] THEN Slice[target, 1, -1]
    ELSE target

\* the target without one optional sigil, or else without one pair of brackets
Unwrap(target) ==
    IF EndsWith[target, <<"?">>] \/ EndsWith[target, <<"!">>] THEN Slice[target, 0, -1]
    ELSE IF StartsWith[target, <<"[">>] /\ EndsWith[target, <<"]">>] THEN Slice[target, 1, -1]
    ELSE target

\* test_target[point_pos:] when the target has a `.`
FromPoint[test_target \in Str] ==
    IF Find[test_target, <<".">>] # -1
    THEN SliceFrom[test_target, Find[test_target, <<".">>]]
    ELSE test_target

\* does the key refname equal `<to> <test_target>` for some to of type_order
KindMatch(refname, test_target) ==
    \E k \in 1..Len(type_order) : refname = type_order[k] \o <<" ">> \o test_target

\* the nested loops over the table and type_order: the 1-based position of
\* the entry the first return is reached with, 0 when the loops end
FirstMatch(objects, test_target) ==
    IF \E i \in 1..Len(objects) : KindMatch(objects[i].refname, test_target)
    THEN CHOOSE i \in 1..Len(objects) :
            /\ KindMatch(objects[i].refname, test_target)
            /\ \A j \in 1..(i - 1) : ~KindMatch(objects[j].refname, test_target)
    ELSE 0

\* the documentation site a reserved name links to
ReservedBase(test_target) ==
    IF StartsWith[test_target, <<"C", "G">>]
    THEN <<"h", "t", "t", "p", "s", ":", "/", "/", "d", "e", "v", "e", "l", "o", "p", "e", "r", ".", "a", "p", "p", "l", "e", ".", "c", "o", "m", "/", "d", "o", "c", "u", "m", "e", "n", "t", "a", "t", "i", "o", "n", "/", "c", "o", "r", "e", "g", "r", "a", "p", "h", "i", "c", "s", "/">>
    ELSE IF StartsWith[test_target, <<"C", "L">>]
    THEN <<"h", "t", "t", "p", "s", ":", "/", "/", "d", "e", "v", "e", "l", "o", "p", "e", "r", ".", "a", "p", "p", "l", "e", ".", "c", "o", "m", "/", "d", "o", "c", "u", "m", "e", "n", "t", "a", "t", "i", "o", "n", "/", "c", "o", "r", "e", "l", "o", "c", "a", "t", "i", "o", "n", "/">>
    ELSE IF StartsWith[test_target, <<"G", "L">>]
    THEN <<"h", "t", "t", "p", "s", ":", "/", "/", "d", "e", "v", "e", "l", "o", "p", "e", "r", ".", "a", "p", "p", "l", "e", ".", "c", "o", "m", "/", "d", "o", "c", "u", "m", "e", "n", "t", "a", "t", "i", "o", "n", "/", "g", "l", "k", "i", "t", "/">>
    ELSE IF StartsWith[test_target, <<"U", "I">>]
    THEN <<"h", "t", "t", "p", "s", ":", "/", "/", "d", "e", "v", "e", "l", "o", "p", "e", "r", ".", "a", "p", "p", "l", "e", ".", "c", "o", "m", "/", "d", "o", "c", "u", "m", "e", "n", "t", "a", "t", "i", "o", "n", "/", "u", "i", "k", "i", "t", "/">>
    ELSE <<"h", "t", "t", "p", "s", ":", "/", "/", "d", "e", "v", "e", "l", "o", "p", "e", "r", ".", "a", "p", "p", "l", "e", ".", "c", "o", "m", "/", "d", "o", "c", "u", "m", "e", "n", "t", "a", "t", "i", "o", "n", "/", "s", "w", "i", "f", "t", "/">>

\* the node resolve_xref returns for the name it tests: match is the
\* position FirstMatch gives
ResolvedNode(objects, test_target, match) ==
    IF match # 0
    THEN [node |-> "refnode", docname |-> objects[match].docname,
          targetid |-> objects[match].signature, title |-> test_target]
    ELSE IF test_target \in swift_reserved
    THEN [node |-> "reference",
          refuri |-> ReservedBase(test_target) \o Lower[test_target],
          reftitle |-> test_target]
    ELSE [node |-> "None"]

\* resolve_xref from the name it tests on
ResolveTestTarget[test_target \in Str, objects \in Seq(Object)] ==
    ResolvedNode(objects, test_target, FirstMatch(objects, test_target))

ResolveXref(objects, target) == ResolveTestTarget[FromPoint[Unwrap(target)], objects]

(***************************************************************************)
(* SwiftClassIvar.handle_signature: let, var, static_let and static_var    *)
(* directives, matched by the pattern var_sig                              *)
(***************************************************************************)

\* [a-zA-Z_], the class a name starts with
NameStart == {UpperCase[k] : k \in 1..Len(UpperCase)} \cup {LowerCase[k] : k \in 1..Len(LowerCase)} \cup {"_"}

\* [a-zA-Z0-9_], the class a name goes on with
NameChars == NameStart \cup {"0", "1", "2", "3", "4", "5", "6", "7", "8", "9"}

\* [a-zA-Z_[(], the class a type starts with
TypeStart == NameStart \cup {"[", "("}

\* [a-zA-Z0-9_<>[\]()?!:, \t-\.], the class a type goes on with: `\t-\.` is
\* the range of the characters from the tab to the full stop
TypeChars ==
    NameChars \cup {"<", ">", "[", "]", "(", ")", "?", "!", ":", ",", " "}
    \cup {"\t", "\n", "\f", "\r", " ", "!", "\"", "#", "$", "%", "&", "'", "(", ")",
          "*", "+", ",", "-", "."}

\* a greedy run of a class: the offset where the longest run of characters
\* of chars that begins at offset i of s ends
RunEnd[s \in Str, i \in Nat, chars \in SUBSET STRING] ==
    CHOOSE j \in i..Len(s) :
       /\ \A k \in (i + 1)..j : s[k] \in chars
       /\ j = Len(s) \/ s[j + 1] \notin chars

\* the character of s at offset i is one of chars
AtOneOf(s, i, chars) == i < Len(s) /\ s[i + 1] \in chars

\* the group (\s*=\s*(?P<value>[^{]*))? tried at offset i: the value, None
\* when the group takes no part in the match, and the offset the match ends at
ValueGroup(s, i) ==
    IF AtOneOf(s, RunEnd[s, i, Whitespace], {"="})
    THEN [value |-> Some(SubSeq(s, RunEnd[s, RunEnd[s, i, Whitespace] + 1, Whitespace] + 1,
                                   RunEnd[s, RunEnd[s, RunEnd[s, i, Whitespace] + 1, Whitespace],
                                          {s[k] : k \in 1..Len(s)} \ {"{"}])),
          end |-> RunEnd[s, RunEnd[s, RunEnd[s, i, Whitespace] + 1, Whitespace],
                         {s[k] : k \in 1..Len(s)} \ {"{"}]]
    ELSE [value |-> None, end |-> i]

\* the offset a type starts at when the group (\s*:\s*(?P<type>...))? matches
\* at offset i, -1 when it does not
TypeFrom(s, i) ==
    IF /\ AtOneOf(s, RunEnd[s, i, Whitespace], {":"})
       /\ AtOneOf(s, RunEnd[s, RunEnd[s, i, Whitespace] + 1, Whitespace], TypeStart)
    THEN RunEnd[s, RunEnd[s, i, Whitespace] + 1, Whitespace]
    ELSE -1

\* the match from the end of the name, at offset i, on
VarMatchAfterName(s, name, i) ==
    IF TypeFrom(s, i) >= 0
    THEN [matched |-> TRUE, name |-> name,
          type |-> Some(SubSeq(s, TypeFrom(s, i) + 1, RunEnd[s, TypeFrom(s, i) + 1, TypeChars])),
          value |-> ValueGroup(s, RunEnd[s, TypeFrom(s, i) + 1, TypeChars]).value,
          end |-> ValueGroup(s, RunEnd[s, TypeFrom(s, i) + 1, TypeChars]).end]
    ELSE [matched |-> TRUE, name |-> name, type |-> None,
          value |-> ValueGroup(s, i).value, end |-> ValueGroup(s, i).end]

\* var_sig.match(sig): the groups name, type and value and the end of the
\* match.  Every quantifier is greedy and what follows it can always match,
\* so the match is the one that takes the longest run each time; the name is
\* followed by no name character, which is what \b asks for.
VarSigMatch(s) ==
    IF AtOneOf(s, RunEnd[s, 0, Whitespace], NameStart)
    THEN VarMatchAfterName(s, SubSeq(s, RunEnd[s, 0, Whitespace] + 1,
                                        RunEnd[s, RunEnd[s, 0, Whitespace] + 1, NameChars]),
                           RunEnd[s, RunEnd[s, 0, Whitespace] + 1, NameChars])
    ELSE [matched |-> FALSE]

\* the default the signature node shows: the text of the desc_addname node
\* the code adds, None when it adds none
RenderedDefault(value) ==
    IF Truthy(value) /\ Len(value[1]) > 0 THEN Some(Strip[value[1]])
    ELSE IF Truthy(value) THEN Some(<<"{", " ", ".", ".", ".", " ", "}">>)
    ELSE None

\* the placeholder branch is the one taken
OpaqueDefault(value) == ~(Truthy(value) /\ Len(value[1]) > 0) /\ Truthy(value)

\* SwiftClassIvar.handle_signature: None, after a warning, when the pattern
\* does not match
IvarHandleSignature(sig, objtype, container) ==
    IF ~VarSigMatch(sig).matched
    THEN [exc |-> "none", returned |-> FALSE, warning |-> sig]
    ELSE [exc |-> "none", returned |-> TRUE,
          name |-> Strip[VarSigMatch(sig).name],
          type |-> IF Truthy(VarSigMatch(sig).type)
                   THEN Some(Strip[VarSigMatch(sig).type[1]]) ELSE None,
          default_value |-> RenderedDefault(VarSigMatch(sig).value),
          has_opaque_default |-> OpaqueDefault(VarSigMatch(sig).value),
          fullname |-> Qualify[container, Strip[VarSigMatch(sig).name]],
          signature |-> Qualify[container, Strip[VarSigMatch(sig).name]],
          add_to_index |-> TRUE]

(***************************************************************************)
(* Bounds and the inputs the operations are run on                         *)
(***************************************************************************)

\* the most entries the symbol table is let grow to
MaxObjects == 2

\* the most class-like directive bodies open at once
MaxDepth == 1

\* the most wrappers (`?`, `!`, `[...]`) put around a reference target
MaxWrappers == 2

\* the most tokens concatenated into a signature handed to a parser alone
MaxTokens == 3

\* the documents of the project
Docs == {"index", "api"}

\* a directive of a document: its kind, its signature argument and whether
\* it carries the :noindex: option
Directive(objtype, s, noindex) == [objtype |-> objtype, sig |-> s, noindex |-> noindex]

\* the class-like directives the documents hold (handled by SwiftClass)
ClassDirectives ==
    {Directive(<<"c", "l", "a", "s", "s">>, <<"A", "p", "p", "l", "e">>, FALSE),
     Directive(<<"c", "l", "a", "s", "s">>, <<"A", "p", "p", "l", "e">>, TRUE),
     Directive(<<"e", "x", "t", "e", "n", "s", "i", "o", "n">>, <<"A", "p", "p", "l", "e">>, FALSE),
     Directive(<<"e", "x", "t", "e", "n", "s", "i", "o", "n">>, <<"A", "p", "p", "l", "e", ":", " ", "B", "a", "r">>, FALSE),
     Directive(<<"s", "t", "r", "u", "c", "t">>, <<"A", "p", "p", "l", "e", "<", "A", "<", "B", ">", ">">>, FALSE)}

\* the callable directives the documents hold (handled by SwiftClassmember)
MemberDirectives ==
    {Directive(<<"m", "e", "t", "h", "o", "d">>, <<"f", "(", "x", ":", " ", "I", "n", "t", ")">>, FALSE)}

\* the class-like directives of the documents whose references are resolved
LookupDirectives ==
    {Directive(<<"c", "l", "a", "s", "s">>, <<"A", "p", "p", "l", "e">>, FALSE),
     Directive(<<"s", "t", "r", "u", "c", "t">>, <<"A", "p", "p", "l", "e">>, FALSE),
     Directive(<<"c", "l", "a", "s", "s">>, <<"B", "a", "r">>, FALSE)}

\* the names references are made to, before any wrapper is put around them
TargetNames == {<<"A", "p", "p", "l", "e">>, <<"B", "a", "r">>, <<"F", "o", "o", ".", "B", "a", "r">>, <<"I", "n", "t">>}

\* a name with one more wrapper around it
Wrapped(t) == {t \o <<"?">>, t \o <<"!">>, <<"[">> \o t \o <<"]">>}

RECURSIVE TargetsUpTo(_)
TargetsUpTo(n) ==
    IF n = 0 THEN TargetNames
    ELSE LET inner == TargetsUpTo(n - 1)
         IN  inner \cup UNION {Wrapped(t) : t \in inner}

Targets == TargetsUpTo(MaxWrappers)

\* every concatenation of at most n of the tokens
Concats[tokens \in SUBSET Str, n \in Nat] ==
    IF n = 0 THEN {<<>>}
    ELSE Concats[tokens, n - 1]
         \cup {s \o t : s \in Concats[tokens, n - 1], t \in tokens}

\* the containers a parser is run under: none, or a class named Outer
Containers == {None, Some(<<"O", "u", "t", "e", "r">>)}

\* signatures handed to the class-like parser
ClassTokens ==
    {<<"F", "o", "o">>, <<".">>, <<"<", "T", ">">>, <<"<">>, <<" ", "w", "h", "e", "r", "e", " ", "T">>, <<":", " ", "B", "a", "r">>, <<",", " ", "w", "h", "e", "r", "e">>, <<",", " ", "B", "a", "z">>}

ClassExamples ==
    {<<"M", "y", "C", "l", "a", "s", "s", "<", "T", ">", ":", " ", "B", "a", "s", "e", ",", " ", "P", "r", "o", "t", "o", " ", "w", "h", "e", "r", "e", " ", "T", ":", " ", "E", "q", "u", "a", "t", "a", "b", "l", "e">>,
     <<"F", "o", "o", ":", " ", "B", "a", "r", ",", " ", "w", "h", "e", "r", "e", ",", " ", "T", ":", " ", "E", "q", "u", "a", "t", "a", "b", "l", "e">>,
     <<"F", "o", "o", ".", "B", "a", "r", "<", "T", ">", " ", "w", "h", "e", "r", "e", " ", "T", ":", " ", "B", "a", "z">>}

ClassInputs == Concats[ClassTokens, MaxTokens] \cup ClassExamples

\* signatures handed to the callable parser
MemberTokens ==
    {<<"f", "(">>, <<"f", "<", "T", ">", "(">>, <<"x", ":", " ", "A">>, <<"x", ":", " ", "A", ",", " ", "y", " ", "z", ":", " ", "B", " ", "=", " ", "1">>, <<"x">>, <<")">>,
     <<")", " ", "t", "h", "r", "o", "w", "s", " ", "-", ">", " ", "R">>}

MemberExamples ==
    {<<"f", "(", "x", ":", " ", "D", "i", "c", "t", "i", "o", "n", "a", "r", "y", "<", "S", "t", "r", "i", "n", "g", ",", " ", "I", "n", "t", ">", ",", " ", "y", ":", " ", "B", "o", "o", "l", ")">>,
     <<"f", "o", "o", "(", "x", ":", " ", "I", "n", "t", ",", " ", "y", " ", "l", "a", "b", "e", "l", ":", " ", "S", "t", "r", "i", "n", "g", " ", "=", " ", "\"", "a", "\"", ")">>,
     <<"f", "o", "o", "<", "A", "<", "B", ">", ">", "(", "x", ":", " ", "I", "n", "t", ")">>,
     <<"f", "o", "o", "(", "x", ":", " ", "A", "r", "r", "a", "y", "<", "I", "n", "t", ">", ")">>}

MemberInputs == Concats[MemberTokens, MaxTokens] \cup MemberExamples

\* texts handed to the parameter list parser
ParameterTokens ==
    {<<"x", ":", " ", "A">>, <<"y", " ", "z", ":", " ", "B", " ", "=", " ", "1">>, <<"x", ":", " ", "D", "<", "S", ",", " ", "I", ">">>, <<"c", ":", " ", "(", "A", ",", " ", "B", ")">>, <<",">>, <<"<">>, <<"(">>,
     <<"]">>, <<"q">>}

ParameterExamples ==
    {<<"x", ":", " ", "D", "i", "c", "t", "i", "o", "n", "a", "r", "y", "<", "S", "t", "r", "i", "n", "g", ",", " ", "I", "n", "t", ">", ",", " ", "y", ":", " ", "B", "o", "o", "l">>,
     <<"c", "b", ":", " ", "(", "I", "n", "t", ")", " ", "-", ">", " ", "V", "o", "i", "d", ",", " ", "y", ":", " ", "B", "o", "o", "l">>,
     <<"a", ":", " ", "[", "K", ":", " ", "V", "]", ",", " ", "b", " ", "c", ":", " ", "(", "A", ",", " ", "B", "<", "C", ",", " ", "D", ">", ")", " ", "=", " ", "(", "1", ",", " ", "2", ")", ",", " ", "d", ":", " ", "E">>}

ParameterInputs == Concats[ParameterTokens, MaxTokens] \cup ParameterExamples

\* signatures handed to the enum case parser
EnumCaseTokens == {<<"o", "k">>, <<"(", "I", "n", "t", ")">>, <<" ", "=", " ", "1">>, <<"(">>, <<"=">>, <<" ">>}

EnumCaseExamples == {<<"s", "u", "c", "c", "e", "s", "s", "(", "v", "a", "l", "u", "e", ":", " ", "I", "n", "t", ")", " ", "=", " ", "1">>}

EnumCaseInputs == Concats[EnumCaseTokens, MaxTokens] \cup EnumCaseExamples

\* signatures handed to the variable parser
IvarInputs ==
    Concats[{<<"x">>, <<":", " ", "I", "n", "t">>, <<" ", "=", " ">>, <<"5">>, <<"{", " ", ".", ".", ".", " ", "}">>, <<" ">>}, MaxTokens]
    \cup {<<"x", ":", " ", "I", "n", "t", " ", "=", " ", "{", " ", ".", ".", ".", " ", "}">>, <<"c", "o", "u", "n", "t", ":", " ", "[", "S", "t", "r", "i", "n", "g", ":", " ", "I", "n", "t", "]", "?", " ", "=", " ", "[", ":", "]", " ", "{", " ", "d", "i", "d", "S", "e", "t", " ", "}">>}

(***************************************************************************)
(* State                                                                   *)
(***************************************************************************)

VARIABLES
    objects,      \* env.domaindata['swift']['objects'], in insertion order
    docname,      \* env.docname: the document being read
    ids,          \* state.document.ids of the document being read
    temp_class,   \* env.temp_data['swift:class']
    temp_class_type,  \* env.temp_data['swift:class_type']
    directives,   \* the class-like directives whose body is open, innermost last
    warnings,     \* the duplicate warnings the last operation reported
    failure,      \* the exception that ended the build, "none" while it runs
    sig,          \* the signature text of the last directive or parse
    last          \* the last call and what it returned

vars == <<objects, docname, ids, temp_class, temp_class_type, directives,
          warnings, failure, sig, last>>

Init ==
    /\ objects = <<>>
    /\ docname \in Docs
    /\ ids = {}
    /\ temp_class = None
    /\ temp_class_type = None
    /\ directives = <<>>
    /\ warnings = <<>>
    /\ failure = "none"
    /\ sig = <<>>
    /\ last = [op |-> "none"]

Running == failure = "none"

\* the table stays within MaxObjects entries
Room == Len(objects') <= MaxObjects

(***************************************************************************)
(* Operations                                                              *)
(***************************************************************************)

\* The build reads document d anew: the entries it defined are cleared
\* (clear_doc), and its directives then run against a fresh document.
ReadDoc(d) ==
    /\ Running
    /\ directives = <<>>
    /\ objects' = ClearDocObjects(objects, d)
    /\ docname' = d
    /\ ids' = {}
    /\ temp_class' = None
    /\ temp_class_type' = None
    /\ last' = [op |-> "read_doc", docname |-> d,
                removed |-> Len(objects) - Len(objects')]
    /\ warnings' = <<>>
    /\ UNCHANGED <<directives, failure, sig>>

\* SwiftDomain.clear_doc for a document that is not being read
ClearDoc(d) ==
    /\ Running
    /\ d # docname
    /\ objects' = ClearDocObjects(objects, d)
    /\ last' = [op |-> "clear_doc", docname |-> d,
                removed |-> Len(objects) - Len(objects')]
    /\ warnings' = <<>>
    /\ UNCHANGED <<docname, ids, temp_class, temp_class_type, directives,
                   failure, sig>>

\* the state a directive's add_target_and_index works on
IndexState == [objects |-> objects, ids |-> ids, warnings |-> <<>>]

\* what a directive does with the triple its handle_signature returned; a
\* ValueError raised there leaves the directive without a name and the
\* table as it was
Indexed(out, d) ==
    IF Raised(out) THEN IndexState
    ELSE AddTargetAndIndex(IndexState, docname, d.objtype, out.fullname,
                           out.signature, out.add_to_index, d.noindex)

\* the next table, ids and warnings after a directive whose handle_signature
\* returned out
Index(out, d) ==
    /\ objects' = Indexed(out, d).objects
    /\ ids' = Indexed(out, d).ids
    /\ warnings' = Indexed(out, d).warnings

\* SwiftClass.before_content: the container name for the members to come.
\* The signature of a class-like directive is its kind, a space and its name,
\* so the split always has more than one part; the other branch of the code
\* (line 143, which names an undefined `env`) is never taken.
BeforeContent[signature \in Str] ==
    IF Len(Split[signature, <<" ">>]) > 1
    THEN Some(Join[<<" ">>, Tail(Split[signature, <<" ">>])])
    ELSE None

\* A class-like directive runs up to its body: handle_signature,
\* add_target_and_index, before_content. At most depth bodies are open.
EnterClassWithin(d, depth) ==
    /\ Running
    /\ Len(directives) < depth
    /\ sig' = d.sig
    /\ last' = [op |-> "class", directive |-> d,
                out |-> ClassHandleSignature(d.sig, d.objtype, temp_class)]
    /\ Index(last'.out, d)
    /\ Room
    /\ IF Raised(last'.out)
       THEN /\ directives' = Append(directives, [clsname_set |-> FALSE,
                                                  objtype |-> d.objtype,
                                                  names |-> <<>>])
            /\ UNCHANGED <<temp_class, temp_class_type>>
       ELSE /\ directives' = Append(directives, [clsname_set |-> TRUE,
                                                  objtype |-> d.objtype,
                                                  names |-> <<last'.out.signature>>])
            /\ temp_class' = BeforeContent[last'.out.signature]
            /\ temp_class_type' = Some(d.objtype)
    /\ UNCHANGED <<docname, failure>>

EnterClass(d) == EnterClassWithin(d, MaxDepth)

\* SwiftClass.after_content of the innermost open directive; clsname_set is
\* an attribute only before_content creates
LeaveClass ==
    /\ Running
    /\ directives # <<>>
    /\ IF directives[Len(directives)].clsname_set
       THEN /\ temp_class' = None
            /\ temp_class_type' = None
            /\ UNCHANGED failure
       ELSE /\ failure' = "AttributeError"
            /\ UNCHANGED <<temp_class, temp_class_type>>
    /\ directives' = SubSeq(directives, 1, Len(directives) - 1)
    /\ last' = [op |-> "after_content"]
    /\ warnings' = <<>>
    /\ UNCHANGED <<objects, docname, ids, sig>>

\* a function, method or init directive
DeclareMember(d) ==
    /\ Running
    /\ sig' = d.sig
    /\ last' = [op |-> "member", directive |-> d,
                out |-> MemberHandleSignature(d.sig, d.objtype, temp_class)]
    /\ Index(last'.out, d)
    /\ Room
    /\ UNCHANGED <<docname, temp_class, temp_class_type, directives, failure>>

\* SwiftDomain.resolve_xref for a reference to target
Resolve(target) ==
    /\ Running
    /\ last' = [op |-> "resolve_xref", target |-> target,
                node |-> ResolveXref(objects, target)]
    /\ warnings' = <<>>
    /\ UNCHANGED <<objects, docname, ids, temp_class, temp_class_type, directives,
                   failure, sig>>

\* a build: documents are read, their directives run, documents are dropped
Next ==
    \/ \E d \in Docs : ReadDoc(d)
    \/ \E d \in Docs : ClearDoc(d)
    \/ \E d \in ClassDirectives : EnterClass(d)
    \/ LeaveClass
    \/ \E d \in MemberDirectives : DeclareMember(d)

Spec == Init /\ [][Next]_vars

\* a directive, and what the class-like parser gives
DirectiveRecord == [objtype : Str, sig : Str, noindex : BOOLEAN]

ParsedClass ==
    [exc : {"none"}, name : Str, generic_clause : OptStr, super_classes : Seq(StrList),
     type_constraint : OptStr, fullname : Str, signature : Str, add_to_index : BOOLEAN]
    \cup {ValueError}

\* the table, the ids and the warnings after one more class-like directive
\* has run at the top level of document d
IndexedNext[before \in TableState, directive \in DirectiveRecord, out \in ParsedClass, d \in STRING] ==
    IF Raised(out) THEN before
    ELSE AddTargetAndIndex([before EXCEPT !.warnings = <<>>], d, directive.objtype,
                           out.fullname, out.signature, out.add_to_index,
                           directive.noindex)

\* the table, the ids and the warnings after the class-like directives ds
\* have run one after the other at the top level of document d
DocumentRead[ds \in Seq(DirectiveRecord), d \in STRING] ==
    IF ds = <<>> THEN [objects |-> <<>>, ids |-> {}, warnings |-> <<>>]
    ELSE IndexedNext[DocumentRead[SubSeq(ds, 1, Len(ds) - 1), d], ds[Len(ds)],
                     ClassHandleSignature(ds[Len(ds)].sig, ds[Len(ds)].objtype, None), d]

\* the lists of at most n of the directives of LookupDirectives
DirectiveLists(n) == UNION {[1..k -> LookupDirectives] : k \in 0..n}

\* a document has been read, and its directives have filled the table
LookupInit ==
    /\ docname \in Docs
    /\ \E ds \in DirectiveLists(MaxObjects) :
          /\ objects = DocumentRead[ds, docname].objects
          /\ ids = DocumentRead[ds, docname].ids
          /\ warnings = DocumentRead[ds, docname].warnings
    /\ temp_class = None
    /\ temp_class_type = None
    /\ directives = <<>>
    /\ failure = "none"
    /\ sig = <<>>
    /\ last = [op |-> "none"]

\* the references of the documents are resolved against the table
LookupNext == \E target \in Targets : Resolve(target)

LookupSpec == LookupInit /\ [][LookupNext]_vars

(***************************************************************************)
(* Class-like directives nested in the body of one another                 *)
(***************************************************************************)

\* the most bodies open at a time in a document with nested declarations
MaxNesting == 2

\* the class-like directives of a document with nested declarations
NestedDirectives ==
    {Directive(<<"c", "l", "a", "s", "s">>, <<"A", "p", "p", "l", "e">>, TRUE),
     Directive(<<"s", "t", "r", "u", "c", "t">>, <<"B", "o", "x">>, FALSE)}

\* a class-like directive in the body of another, or at the top level
EnterNested(d) == EnterClassWithin(d, MaxNesting)

NestNext ==
    \/ \E d \in NestedDirectives : EnterNested(d)
    \/ LeaveClass
    \/ \E d \in MemberDirectives : DeclareMember(d)

NestSpec == Init /\ [][NestNext]_vars

(***************************************************************************)
(* SwiftModuleIndex: the module index built from the symbol table          *)
(***************************************************************************)

\* the printable characters in code point order: from the space (32) to the
\* underscore (95), and from the small a (97) to the tilde (126)
AsciiLow == <<" ", "!", "\"", "#", "$", "%", "&", "'", "(", ")", "*", "+", ",", "-", ".", "/", "0", "1", "2", "3", "4", "5", "6", "7", "8", "9", ":", ";", "<", "=", ">", "?", "@", "A", "B", "C", "D", "E", "F", "G", "H", "I", "J", "K", "L", "M", "N", "O", "P", "Q", "R", "S", "T", "U", "V", "W", "X", "Y", "Z", "[", "\\", "]", "^", "_">>

AsciiHigh == <<"a", "b", "c", "d", "e", "f", "g", "h", "i", "j", "k", "l", "m", "n", "o", "p", "q", "r", "s", "t", "u", "v", "w", "x", "y", "z", "{", "|", "}", "~">>

\* the code point of a character, by which str values are compared
Ord[c \in STRING] ==
    IF \E k \in 1..Len(AsciiLow) : AsciiLow[k] = c
    THEN 31 + (CHOOSE k \in 1..Len(AsciiLow) : AsciiLow[k] = c)
    ELSE 96 + (CHOOSE k \in 1..Len(AsciiHigh) : AsciiHigh[k] = c)

\* s < t for two str values
StrLess[s \in Str, t \in Str] ==
    \E k \in 1..Len(t) :
       /\ \A i \in 1..(k - 1) : i <= Len(s) /\ s[i] = t[i]
       /\ k > Len(s) \/ Ord[s[k]] < Ord[t[k]]

\* c.upper() for one character
UpperChar[c \in STRING] ==
    IF \E k \in 1..Len(LowerCase) : LowerCase[k] = c
    THEN UpperCase[CHOOSE k \in 1..Len(LowerCase) : LowerCase[k] = c]
    ELSE c

Digits == <<"0", "1", "2", "3", "4", "5", "6", "7", "8", "9">>

\* '{:04d}'.format(i), for i below 10000
Format04[i \in Nat] ==
    <<Digits[((i \div 1000) % 10) + 1], Digits[((i \div 100) % 10) + 1],
      Digits[((i \div 10) % 10) + 1], Digits[(i % 10) + 1]>>

\* typ.replace("_", " ")
ReplaceUnderscores[typ \in Str] == [i \in 1..Len(typ) |-> IF typ[i] = "_" THEN " " ELSE typ[i]]

\* an entry of the index: refname, docname, signature and info of the tuple
IndexEntry == [refname : Str, docname : STRING, signature : Str, info : Str]

\* the entries of the table, in the order the table holds them
IndexEntries(table) ==
    [i \in 1..Len(table) |->
        [refname |-> table[i].refname, docname |-> table[i].docname,
         signature |-> table[i].signature,
         info |-> ReplaceUnderscores[table[i].type]]]

\* the 0-based position in type_order of the first word text starts with,
\* -1 when it starts with none of them
TypePrefix[text \in Str] ==
    IF \E i \in 1..Len(type_order) : StartsWith[text, type_order[i]]
    THEN (CHOOSE i \in 1..Len(type_order) :
             /\ StartsWith[text, type_order[i]]
             /\ \A j \in 1..(i - 1) : ~StartsWith[text, type_order[j]]) - 1
    ELSE -1

\* SwiftModuleIndex.indexsorter: the sort key of an entry within its group
IndexSorter(a) ==
    IF TypePrefix[a.refname] >= 0
    THEN Format04[TypePrefix[a.refname]] \o a.refname
    ELSE a.refname

\* `start`: where the text after the kind word of a signature begins
SigStart[signature \in Str] ==
    IF TypePrefix[signature] >= 0
    THEN Len(type_order[TypePrefix[signature] + 1]) + 1
    ELSE 0

IndexError == [exc |-> "IndexError"]

\* a[3][start] raises IndexError when the signature ends before start
SigRaises(a) == SigStart[a.signature] >= Len(a.signature)

\* SwiftModuleIndex.sigsorter: the character an entry is grouped under
SigSorter(a) == a.signature[SigStart[a.signature] + 1]

\* sorted(entries, key=...): a stable sort; keys[i] is a number that orders
\* the key of entries[i] among the keys
SortedBy(entries, keys) ==
    LET n == Len(entries)
        pos(i) == 1 + Cardinality({j \in 1..n :
                         keys[j] < keys[i] \/ (keys[j] = keys[i] /\ j < i)})
    IN  [q \in 1..n |-> entries[CHOOSE i \in 1..n : pos(i) = q]]

\* the keys sigsorter gives, one character each, by their code points
SigKeys(entries) == [i \in 1..Len(entries) |-> Ord[SigSorter(entries[i])]]

\* the keys indexsorter gives, each by the number of keys that are less
IndexKeys(entries) ==
    [i \in 1..Len(entries) |->
        Cardinality({j \in 1..Len(entries) :
                        StrLess[IndexSorter(entries[j]), IndexSorter(entries[i])]})]

\* a group of the index: its key (None before the first entry) and entries
Group == [key : Seq(STRING), entries : Seq(IndexEntry)]

\* the loop of generate over the sorted entries: content holds the groups
\* closed so far, current the group being filled
GroupLoop[entries \in Seq(IndexEntry), content \in Seq(Group), current \in Group] ==
    IF entries = <<>> THEN Append(content, current)
    ELSE IF Some(UpperChar[SigSorter(Head(entries))]) # current.key
    THEN GroupLoop[Tail(entries),
                   IF Len(current.entries) > 0 THEN Append(content, current)
                   ELSE content,
                   [key |-> Some(UpperChar[SigSorter(Head(entries))]),
                    entries |-> <<Head(entries)>>]]
    ELSE GroupLoop[Tail(entries), content,
                   [current EXCEPT !.entries = Append(@, Head(entries))]]

\* the groups, each sorted by indexsorter
SortGroups(content) ==
    [g \in 1..Len(content) |->
        [key |-> content[g].key,
         entries |-> SortedBy(content[g].entries, IndexKeys(content[g].entries))]]

\* SwiftModuleIndex.generate: the groups of the index, or the IndexError
Generate(table) ==
    IF \E i \in 1..Len(table) : SigRaises(IndexEntries(table)[i])
    THEN IndexError
    ELSE [exc |-> "none",
          content |-> SortGroups(GroupLoop[SortedBy(IndexEntries(table), SigKeys(IndexEntries(table))),
                                           <<>>, [key |-> None, entries |-> <<>>]])]

\* the most entries a table whose index is built holds
MaxEntries == 3

\* the directives of the documents whose index is built
IndexDirectives ==
    {Directive(<<"c", "l", "a", "s", "s">>, <<"A", "p", "p", "l", "e">>, FALSE),
     Directive(<<"s", "t", "r", "u", "c", "t">>, <<"A", "p", "p", "l", "e">>, FALSE),
     Directive(<<"c", "l", "a", "s", "s">>, <<"B", "a", "n", "a", "n", "a">>, FALSE),
     Directive(<<"c", "l", "a", "s", "s">>, <<"a", "p", "p", "l", "e">>, FALSE),
     Directive(<<"p", "r", "o", "t", "o", "c", "o", "l">>, <<"R", "e", "a", "d", "a", "b", "l", "e">>, FALSE),
     Directive(<<"f", "u", "n", "c", "t", "i", "o", "n">>, <<"e", "n", "u", "m", "e", "r", "a", "t", "e", "(", ")">>, FALSE)}

ParsedMember ==
    [exc : {"none"}, name : Str, generics : OptStr, parameters : Seq(Parameter),
     throws : BOOLEAN, return_type : OptStr, fullname : Str, signature : Str,
     add_to_index : BOOLEAN]
    \cup {ValueError}

\* the table, the ids and the warnings after one more callable directive has
\* run at the top level of document d
MemberIndexedNext[before \in TableState, directive \in DirectiveRecord, out \in ParsedMember, d \in STRING] ==
    IF Raised(out) THEN before
    ELSE AddTargetAndIndex([before EXCEPT !.warnings = <<>>], d, directive.objtype,
                           out.fullname, out.signature, out.add_to_index,
                           directive.noindex)

\* the kinds whose directive is handled by SwiftClassmember
MemberKinds == {<<"f", "u", "n", "c", "t", "i", "o", "n">>, <<"m", "e", "t", "h", "o", "d">>, <<"c", "l", "a", "s", "s", "_", "m", "e", "t", "h", "o", "d">>, <<"s", "t", "a", "t", "i", "c", "_", "m", "e", "t", "h", "o", "d">>, <<"i", "n", "i", "t">>}

\* the table, the ids and the warnings after the directives ds have run one
\* after the other at the top level of document d
TableRead[ds \in Seq(DirectiveRecord), d \in STRING] ==
    IF ds = <<>> THEN [objects |-> <<>>, ids |-> {}, warnings |-> <<>>]
    ELSE IF ds[Len(ds)].objtype \in MemberKinds
    THEN MemberIndexedNext[TableRead[SubSeq(ds, 1, Len(ds) - 1), d], ds[Len(ds)],
                           MemberHandleSignature(ds[Len(ds)].sig, ds[Len(ds)].objtype, None), d]
    ELSE IndexedNext[TableRead[SubSeq(ds, 1, Len(ds) - 1), d], ds[Len(ds)],
                     ClassHandleSignature(ds[Len(ds)].sig, ds[Len(ds)].objtype, None), d]

\* the lists of at most n of the directives of IndexDirectives
IndexDirectiveLists(n) == UNION {[1..k -> IndexDirectives] : k \in 0..n}

\* a document has been read, and its directives have filled the table
IndexInit ==
    /\ docname \in Docs
    /\ \E ds \in IndexDirectiveLists(MaxEntries) :
          /\ objects = TableRead[ds, docname].objects
          /\ ids = TableRead[ds, docname].ids
          /\ warnings = TableRead[ds, docname].warnings
    /\ temp_class = None
    /\ temp_class_type = None
    /\ directives = <<>>
    /\ failure = "none"
    /\ sig = <<>>
    /\ last = [op |-> "none"]

\* the module index is generated from the table
GenerateIndex ==
    /\ last' = [op |-> "generate", out |-> Generate(objects)]
    /\ UNCHANGED <<objects, docname, ids, temp_class, temp_class_type, directives,
                   warnings, failure, sig>>

IndexSpec == IndexInit /\ [][GenerateIndex]_vars

(***************************************************************************)
(* The parsers alone, each on every signature of its inputs                *)
(***************************************************************************)

ParseInit ==
    /\ objects = <<>>
    /\ docname \in Docs
    /\ ids = {}
    /\ temp_class = None
    /\ temp_class_type = None
    /\ directives = <<>>
    /\ warnings = <<>>
    /\ failure = "none"
    /\ sig \in ClassInputs \cup MemberInputs \cup ParameterInputs \cup EnumCaseInputs
               \cup IvarInputs
    /\ last = [op |-> "none"]

\* SwiftClass.handle_signature on sig
ParseClass(objtype, container) ==
    /\ sig \in ClassInputs
    /\ last' = [op |-> "parse_class", objtype |-> objtype, container |-> container,
                out |-> ClassHandleSignature(sig, objtype, container)]
    /\ UNCHANGED <<objects, docname, ids, temp_class, temp_class_type, directives,
                   warnings, failure, sig>>

\* SwiftClassmember.handle_signature on sig
ParseMember(objtype, container) ==
    /\ sig \in MemberInputs
    /\ last' = [op |-> "parse_member", objtype |-> objtype, container |-> container,
                out |-> MemberHandleSignature(sig, objtype, container)]
    /\ UNCHANGED <<objects, docname, ids, temp_class, temp_class_type, directives,
                   warnings, failure, sig>>

\* SwiftClassmember._parse_parameter_list on sig
ParseParameters ==
    /\ sig \in ParameterInputs
    /\ last' = [op |-> "parse_parameter_list", out |-> ParseParameterList(sig)]
    /\ UNCHANGED <<objects, docname, ids, temp_class, temp_class_type, directives,
                   warnings, failure, sig>>

\* SwiftEnumCase.handle_signature on sig
ParseEnumCase(container) ==
    /\ sig \in EnumCaseInputs
    /\ last' = [op |-> "parse_enum_case", container |-> container,
                out |-> EnumCaseHandleSignature(sig, container)]
    /\ UNCHANGED <<objects, docname, ids, temp_class, temp_class_type, directives,
                   warnings, failure, sig>>

\* SwiftClassIvar.handle_signature on sig
ParseVariable(objtype, container) ==
    /\ sig \in IvarInputs
    /\ last' = [op |-> "parse_variable", objtype |-> objtype, container |-> container,
                out |-> IvarHandleSignature(sig, objtype, container)]
    /\ UNCHANGED <<objects, docname, ids, temp_class, temp_class_type, directives,
                   warnings, failure, sig>>

ParseNext ==
    \/ \E objtype \in {<<"c", "l", "a", "s", "s">>, <<"e", "x", "t", "e", "n", "s", "i", "o", "n">>}, container \in Containers :
          ParseClass(objtype, container)
    \/ \E objtype \in {<<"m", "e", "t", "h", "o", "d">>, <<"i", "n", "i", "t">>}, container \in Containers :
          ParseMember(objtype, container)
    \/ ParseParameters
    \/ \E container \in Containers : ParseEnumCase(container)
    \/ \E objtype \in {<<"v", "a", "r">>, <<"l", "e", "t">>}, container \in Containers :
          ParseVariable(objtype, container)

ParseSpec == ParseInit /\ [][ParseNext]_vars

(***************************************************************************)
(* Properties                                                              *)
(***************************************************************************)

\* the operations that run a directive
DirectiveOps == {"class", "member"}

\* the table entry with key fullname
Entry(table, fullname) == table[KeyIndex(table, fullname)]

\* super_types of a parsed class-like signature: empty when there are none
SuperTypes(out) == IF out.super_classes = None THEN <<>> ELSE out.super_classes[1]

\* the last step ran a directive that was to be indexed under a key the table
\* already held for another document
DuplicateAcrossDocuments ==
    /\ last'.op \in DirectiveOps
    /\ ~Raised(last'.out)
    /\ last'.out.add_to_index
    /\ ~last'.directive.noindex
    /\ HasKey(objects, last'.out.fullname)
    /\ Entry(objects, last'.out.fullname).docname # docname

\* C1: when a declaration is inserted under a key the table already holds for
\* another document, the table keeps the first declaration's document, kind
\* and signature, and one more duplicate warning, for that key, is reported.
C1_FirstDeclarationWins ==
    [][DuplicateAcrossDocuments =>
          /\ Entry(objects', last'.out.fullname) = Entry(objects, last'.out.fullname)
          /\ Len(warnings') = 1
          /\ warnings'[1].fullname = last'.out.fullname]_vars

\* a target that carries no wrapper and has a qualifier before a `.`
Qualified(target) ==
    /\ Contains[target, <<".">>]
    /\ ~EndsWith[target, <<"?">>] /\ ~EndsWith[target, <<"!">>]
    /\ ~(StartsWith[target, <<"[">>] /\ EndsWith[target, <<"]">>])

\* the text after the first `.` of a target
AfterQualifier(target) == SliceFrom[target, Find[target, <<".">>] + 1]

\* the keys `<kind> <name>` of the table, for the kinds of type_order
KindKeys(table, name) ==
    {type_order[k] \o <<" ">> \o name : k \in 1..Len(type_order)}
        \cap {table[i].refname : i \in 1..Len(table)}

\* C2: resolve_xref on a target with a leading qualifier ("Foo.Bar") matches
\* on the name after the qualifier ("Bar"): when the table holds "<kind> Bar"
\* for a kind of the priority list, such an entry is what it returns.
C2_QualifierDropped ==
    (last.op = "resolve_xref" /\ Qualified(last.target)
        /\ KindKeys(objects, AfterQualifier(last.target)) # {})
    => (last.node.node = "refnode"
        /\ last.node.targetid \in KindKeys(objects, AfterQualifier(last.target)))

\* the first kind of type_order under which the table holds name
FirstKind(table, name) ==
    type_order[CHOOSE k \in 1..Len(type_order) :
        /\ HasKey(table, type_order[k] \o <<" ">> \o name)
        /\ \A j \in 1..(k - 1) : ~HasKey(table, type_order[j] \o <<" ">> \o name)]

\* C3: when the table holds a name under several kinds, resolve_xref returns
\* the entry of the kind that comes first in class, struct, enum, protocol,
\* extension, whatever the order the entries were inserted in.
C3_PriorityOrder ==
    (last.op = "resolve_xref" /\ last.node.node = "refnode")
    => last.node.targetid = FirstKind(objects, last.node.title) \o <<" ">> \o last.node.title

\* the operations that run a parser alone
ParseOps == {"parse_class", "parse_member", "parse_parameter_list", "parse_enum_case"}

\* C4: a `where` token in the superclass list starts the type constraint and
\* ends the list: "MyClass<T>: Base, Proto where T: Equatable" gives the name
\* "MyClass", the generic clause "T", the super types Base and Proto and no
\* more, and a type constraint that contains "where T: Equatable".
C4_WhereEndsSuperTypes ==
    (last.op = "parse_class" /\ sig = <<"M", "y", "C", "l", "a", "s", "s", "<", "T", ">", ":", " ", "B", "a", "s", "e", ",", " ", "P", "r", "o", "t", "o", " ", "w", "h", "e", "r", "e", " ", "T", ":", " ", "E", "q", "u", "a", "t", "a", "b", "l", "e">>)
    => /\ ~Raised(last.out)
       /\ last.out.name = <<"M", "y", "C", "l", "a", "s", "s">>
       /\ last.out.generic_clause = Some(<<"T">>)
       /\ SuperTypes(last.out) = <<<<"B", "a", "s", "e">>, <<"P", "r", "o", "t", "o">>>>
       /\ last.out.type_constraint # None
       /\ Contains[last.out.type_constraint[1], <<"w", "h", "e", "r", "e", " ", "T", ":", " ", "E", "q", "u", "a", "t", "a", "b", "l", "e">>]

\* C5: no parser raises: the class-like parser, the callable parser, the
\* parameter list parser and the enum case parser return a result for every
\* input, a head with more than one `<` and a chunk without `:` included.
C5_NoParserRaises ==
    last.op \in ParseOps => ~Raised(last.out)

\* the labels of the parameters, from their two names alone
RECURSIVE Labels(_)
Labels(parameters) ==
    IF parameters = <<>> THEN <<>>
    ELSE LET declared_name == parameters[1].name
             local_name == parameters[1].variable_name
         IN  (IF declared_name = local_name THEN declared_name \o <<":">>
              ELSE declared_name \o <<" ">> \o local_name \o <<":">>)
             \o Labels(Tail(parameters))

\* C6: the canonical signature of a callable is its name, or `init` for an
\* init, then `(`, then for each parameter in order `declared_name:` when the
\* two names are equal and `declared_name local_name:` when they differ, then
\* `)`, under the qualifier of the container when there is one: types,
\* defaults, throws and the return type have no part in it.
C6_CanonicalSignature ==
    (last.op = "parse_member" /\ ~Raised(last.out))
    => last.out.signature =
         (IF last.container = None THEN <<>> ELSE last.container[1] \o <<".">>)
         \o (IF last.objtype = <<"i", "n", "i", "t">> THEN <<"i", "n", "i", "t">> ELSE last.out.name)
         \o <<"(">> \o Labels(last.out.parameters) \o <<")">>

\* a callable with equal and with differing names, a default, throws and a
\* return type has been parsed
C6_Witness ==
    /\ last.op = "parse_member"
    /\ sig = <<"f", "(", "x", ":", " ", "A", ",", " ", "y", " ", "z", ":", " ", "B", " ", "=", " ", "1", ")", " ", "t", "h", "r", "o", "w", "s", " ", "-", ">", " ", "R">>
    /\ last.objtype = <<"m", "e", "t", "h", "o", "d">>
    /\ last.container = None
    /\ last.out.signature = <<"f", "(", "x", ":", "y", " ", "z", ":", ")">>
    /\ last.out.throws
    /\ last.out.return_type = Some(<<"R">>)

\* the number of characters c among the first i of text
CountChar(text, c, i) == Cardinality({j \in 1..i : text[j] = c})

\* the positions of the commas of text at which each kind of bracket has been
\* opened as often as it has been closed
TopLevelCommas(text) ==
    {i \in 1..Len(text) :
        /\ text[i] = ","
        /\ CountChar(text, "(", i) = CountChar(text, ")", i)
        /\ CountChar(text, "[", i) = CountChar(text, "]", i)
        /\ CountChar(text, "<", i) = CountChar(text, ">", i)}

\* where the k-th chunk of text begins, given the positions of the cuts
ChunkStart(cuts, k) ==
    CHOOSE a \in {1} \cup {p + 1 : p \in cuts} :
        Cardinality({p \in cuts : p < a}) = k - 1

\* where the chunk that begins at a ends
ChunkEnd(text, cuts, a) ==
    CHOOSE b \in 0..Len(text) :
        /\ b + 1 \in cuts \cup {Len(text) + 1}
        /\ b + 1 >= a
        /\ \A p \in cuts : p >= a => b + 1 <= p

\* the chunks of text between the cuts, trimmed, in the order of the text
ChunksBetween(text, cuts) ==
    [k \in 1..(Cardinality(cuts) + 1) |->
        Strip[SubSeq(text, ChunkStart(cuts, k),
                     ChunkEnd(text, cuts, ChunkStart(cuts, k)))]]

\* C7: the parameter list is split at exactly the commas at which the three
\* counters, of `()`, `[]` and `<>`, all read zero, and the parameters that
\* are returned are one for each chunk, in the order of the text.
C7_TopLevelCommas ==
    last.op = "parse_parameter_list"
    => /\ SplitParameters(sig) = ChunksBetween(sig, TopLevelCommas(sig))
       /\ ~Raised(last.out)
          => /\ Len(last.out.parameters) = Cardinality(TopLevelCommas(sig)) + 1
             /\ \A k \in 1..Len(last.out.parameters) :
                   StartsWith[ChunksBetween(sig, TopLevelCommas(sig))[k],
                              last.out.parameters[k].name]

\* the comma inside `<>` has not split: two parameters, x then y
C7_Witness ==
    /\ last.op = "parse_parameter_list"
    /\ sig = <<"x", ":", " ", "D", "i", "c", "t", "i", "o", "n", "a", "r", "y", "<", "S", "t", "r", "i", "n", "g", ",", " ", "I", "n", "t", ">", ",", " ", "y", ":", " ", "B", "o", "o", "l">>
    /\ Len(last.out.parameters) = 2
    /\ last.out.parameters[1].name = <<"x">>
    /\ last.out.parameters[2].name = <<"y">>

\* C8: a class-like declaration is to be indexed unless its kind is extension
\* and its super_types list is empty, and a declaration that is not to be
\* indexed leaves the symbol table as it was.
C8_ExtensionIndexing ==
    [][(last'.op = "class" /\ ~Raised(last'.out)) =>
          /\ last'.out.add_to_index =
                ~(last'.directive.objtype = <<"e", "x", "t", "e", "n", "s", "i", "o", "n">> /\ SuperTypes(last'.out) = <<>>)
          /\ (~last'.out.add_to_index => objects' = objects)]_vars

\* an extension without a conformance has run and the table has no entry
C8_Witness ==
    /\ last.op = "class"
    /\ last.directive = Directive(<<"e", "x", "t", "e", "n", "s", "i", "o", "n">>, <<"A", "p", "p", "l", "e">>, FALSE)
    /\ ~last.out.add_to_index
    /\ objects = <<>>

\* the entries of a table
Entries(table) == {table[i] : i \in 1..Len(table)}

\* C9: clear_doc(d) removes every entry whose defining document is d and
\* leaves every entry of another document as it was, in its place.
C9_ClearDocFrame ==
    [][last'.op \in {"clear_doc", "read_doc"} =>
          /\ Entries(objects') = {e \in Entries(objects) : e.docname # last'.docname}
          /\ \A i, j \in 1..Len(objects) :
                (i < j /\ objects[i] \in Entries(objects') /\ objects[j] \in Entries(objects'))
                => KeyIndex(objects', objects[i].refname)
                     < KeyIndex(objects', objects[j].refname)]_vars

\* clear_doc has removed an entry and has left one of another document
C9_Witness ==
    /\ last.op = "clear_doc"
    /\ last.removed > 0
    /\ objects # <<>>

\* a target without its one outermost wrapper: a last character `?` or `!`
\* goes, or else a `[` at the start and a `]` at the end go together
OneWrapperOff(target) ==
    IF target # <<>> /\ target[Len(target)] \in {"?", "!"}
    THEN SubSeq(target, 1, Len(target) - 1)
    ELSE IF Len(target) >= 2 /\ target[1] = "[" /\ target[Len(target)] = "]"
    THEN SubSeq(target, 2, Len(target) - 1)
    ELSE target

\* C10: resolve_xref takes exactly one wrapper off its target before it
\* matches: one trailing `?` or `!`, or else one enclosing pair of brackets,
\* and never a second one.
C10_StripsOneWrapper ==
    last.op = "resolve_xref"
    => last.node = ResolveTestTarget[FromPoint[OneWrapperOff(last.target)], objects]

\* "[Apple]?" is looked up as "[Apple]", which the entry of Apple does not match
C10_Witness ==
    /\ last.op = "resolve_xref"
    /\ last.target = <<"[", "A", "p", "p", "l", "e", "]", "?">>
    /\ HasKey(objects, <<"c", "l", "a", "s", "s", " ", "A", "p", "p", "l", "e">>)
    /\ last.node.node = "None"

\* text without the whitespace at its two ends
Trimmed(text) ==
    LET inked == {i \in 1..Len(text) : text[i] \notin Whitespace}
    IN  IF inked = {} THEN <<>>
        ELSE SubSeq(text, CHOOSE i \in inked : \A j \in inked : i <= j,
                          CHOOSE i \in inked : \A j \in inked : i >= j)

\* the first and the last position of the character c in text, 0 when absent
FirstOf(text, c) ==
    IF \E i \in 1..Len(text) : text[i] = c
    THEN CHOOSE i \in 1..Len(text) : text[i] = c /\ \A j \in 1..(i - 1) : text[j] # c
    ELSE 0

LastOf(text, c) ==
    IF \E i \in 1..Len(text) : text[i] = c
    THEN CHOOSE i \in 1..Len(text) : text[i] = c /\ \A j \in (i + 1)..Len(text) : text[j] # c
    ELSE 0

\* text before position i, and text after it
Before(text, i) == SubSeq(text, 1, i - 1)

After(text, i) == SubSeq(text, i + 1, Len(text))

\* the payload of an enum case: the text after its first `(`
Payload(text) == After(text, FirstOf(text, "("))

\* the associated value text of a payload: what stands before its last `=`,
\* or all of it when it has none, trimmed
AssociatedText(payload) ==
    IF LastOf(payload, "=") = 0 THEN Trimmed(payload)
    ELSE Trimmed(Before(payload, LastOf(payload, "=")))

\* the text after the `=` at position i, trimmed; None when there is no `=`
RawValueAfter(text, i) == IF i = 0 THEN None ELSE Some(Trimmed(After(text, i)))

\* C11: with a `(` the enum case name is the trimmed text before the first
\* `(`, and the payload after it is split at its last `=` into the associated
\* value clause, which gets its `(` back and is None when empty, and the raw
\* value; without a `(` the text is split at its first `=` into the case name
\* and the raw value.
C11_EnumCaseParts ==
    last.op = "parse_enum_case"
    => IF FirstOf(sig, "(") > 0
       THEN /\ last.out.case_name = Trimmed(Before(sig, FirstOf(sig, "(")))
            /\ last.out.associated_value_clause =
                  (IF AssociatedText(Payload(sig)) = <<>> THEN None
                   ELSE Some(<<"(">> \o AssociatedText(Payload(sig))))
            /\ last.out.raw_value =
                  RawValueAfter(Payload(sig), LastOf(Payload(sig), "="))
       ELSE /\ last.out.case_name =
                  (IF FirstOf(sig, "=") = 0 THEN Trimmed(sig)
                   ELSE Trimmed(Before(sig, FirstOf(sig, "="))))
            /\ last.out.associated_value_clause = None
            /\ last.out.raw_value = RawValueAfter(sig, FirstOf(sig, "="))

\* "success(value: Int) = 1" has been parsed into its three parts
C11_Witness ==
    /\ last.op = "parse_enum_case"
    /\ sig = <<"s", "u", "c", "c", "e", "s", "s", "(", "v", "a", "l", "u", "e", ":", " ", "I", "n", "t", ")", " ", "=", " ", "1">>
    /\ last.out.case_name = <<"s", "u", "c", "c", "e", "s", "s">>
    /\ last.out.associated_value_clause = Some(<<"(", "v", "a", "l", "u", "e", ":", " ", "I", "n", "t", ")">>)
    /\ last.out.raw_value = Some(<<"1">>)

\* the kind of an entry as the index shows it
KindOf(a) == a.info

\* the rank of a kind: its position in type_order, one more for any other
TypeRank(kind) ==
    IF \E i \in 1..Len(type_order) : type_order[i] = kind
    THEN CHOOSE i \in 1..Len(type_order) : type_order[i] = kind
    ELSE Len(type_order) + 1

\* a comes no later than b by (type_rank, signature)
RankOrdered(a, b) ==
    \/ TypeRank(KindOf(a)) < TypeRank(KindOf(b))
    \/ /\ TypeRank(KindOf(a)) = TypeRank(KindOf(b))
       /\ ~StrLess[b.signature, a.signature]

\* C12: within every group of the module index the entries are ordered by
\* (type_rank, signature), type_rank being the position of the kind of the
\* entry in class, struct, enum, protocol, extension, any other kind last.
C12_GroupsOrderedByKind ==
    (last.op = "generate" /\ last.out.exc = "none")
    => \A g \in 1..Len(last.out.content) :
          \A i, j \in 1..Len(last.out.content[g].entries) :
             i < j => RankOrdered(last.out.content[g].entries[i],
                                  last.out.content[g].entries[j])

\* the signature of an entry without the word of its kind in front
StrippedSignature(a) ==
    IF StartsWith[a.signature, a.info \o <<" ">>]
    THEN SliceFrom[a.signature, Len(a.info) + 1]
    ELSE a.signature

\* the letter an entry belongs under: the first character, in upper case, of
\* its signature without the word of its kind
BucketLetter(a) == UpperChar[StrippedSignature(a)[1]]

\* the places (group, position) of the index where the entry keyed refname is
PlacesOf(content, refname) ==
    {gk \in (1..Len(content)) \X (1..MaxEntries) :
        /\ gk[2] <= Len(content[gk[1]].entries)
        /\ content[gk[1]].entries[gk[2]].refname = refname}

\* C16: whatever the table holds, the module index has each letter in at most
\* one group, entries whose signatures without the kind word begin with the
\* same letter in either case are in the same group, every group is
\* non-empty, and every entry of the table is in exactly one group.
C16_OneGroupPerLetter ==
    last.op = "generate"
    => /\ last.out.exc = "none"
       /\ \A g, h \in 1..Len(last.out.content) :
             g # h => last.out.content[g].key # last.out.content[h].key
       /\ \A g, h \in 1..Len(last.out.content) :
             \A i \in 1..Len(last.out.content[g].entries),
                j \in 1..Len(last.out.content[h].entries) :
                BucketLetter(last.out.content[g].entries[i])
                   = BucketLetter(last.out.content[h].entries[j])
                => g = h
       /\ \A g \in 1..Len(last.out.content) : last.out.content[g].entries # <<>>
       /\ \A i \in 1..Len(objects) :
             Cardinality(PlacesOf(last.out.content, objects[i].refname)) = 1

\* the name of an open class-like directive: its signature without its kind
DeclaredName(directive) == SliceFrom[directive.names[1], Len(directive.objtype) + 1]

\* the container the declarations in the body of the innermost of the open
\* directives belong to: none when no body is open
Enclosing(open) ==
    IF open = <<>> THEN None ELSE Some(DeclaredName(open[Len(open)]))

\* the directives whose body was open when the last declaration was processed
OpenBefore ==
    IF last.op = "class" THEN SubSeq(directives, 1, Len(directives) - 1)
    ELSE directives

\* C13: a declaration processed while the body of a class-like declaration is
\* open is named container.child, container being the name of the innermost
\* enclosing declaration, and one processed while no body is open gets its
\* leaf name; so it is too for the members of an outer declaration that come
\* after a nested body has been left.
C13_QualifiedByEnclosing ==
    (/\ last.op \in {"class", "member"}
     /\ \A i \in 1..Len(OpenBefore) : OpenBefore[i].names # <<>>)
    => last.out = (IF last.op = "class"
                   THEN ClassHandleSignature(sig, last.directive.objtype,
                                             Enclosing(OpenBefore))
                   ELSE MemberHandleSignature(sig, last.directive.objtype,
                                              Enclosing(OpenBefore)))

\* the text the pattern captured as the value of sig, when a `=` was matched
CapturedValue == VarSigMatch(sig).value

\* a `{` follows the text the pattern matched
BraceFollows == AtOneOf(sig, VarSigMatch(sig).end, {"{"})

\* C14: when the signature of a variable has a `=` whose captured value is
\* empty after trimming and a `{` follows, the default is opaque and is
\* rendered as the placeholder `{ ... }`; when the value is not empty it is
\* rendered trimmed as the default value.
C14_OpaqueDefault ==
    (last.op = "parse_variable" /\ last.out.returned /\ CapturedValue # None)
    => IF Trimmed(CapturedValue[1]) = <<>>
       THEN BraceFollows
            => /\ last.out.has_opaque_default
               /\ last.out.default_value = Some(<<"{", " ", ".", ".", ".", " ", "}">>)
       ELSE /\ ~last.out.has_opaque_default
            /\ last.out.default_value = Some(Trimmed(CapturedValue[1]))

\* how many more `<` than `>` the characters i to j of text hold
AngleDepth(text, i, j) ==
    Cardinality({k \in i..j : text[k] = "<"}) - Cardinality({k \in i..j : text[k] = ">"})

\* the position of the `>` that closes the `<` at position i, 0 when none does
MatchingAngle(text, i) ==
    IF \E j \in i..Len(text) : AngleDepth(text, i, j) = 0
    THEN CHOOSE j \in i..Len(text) :
            /\ AngleDepth(text, i, j) = 0
            /\ \A k \in i..(j - 1) : AngleDepth(text, i, k) # 0
    ELSE 0

\* a `<` stands before the first `(` of text
AngleBeforeParen(text) ==
    FirstOf(text, "<") > 0 /\ FirstOf(text, "<") < FirstOf(text, "(")

\* C15: the callable parser finds a generic clause exactly when a `<` stands
\* before the first `(` of the signature; the clause is then the text from
\* that `<` through the `>` that closes it, nested generics included, and the
\* name ends before the `<`.  A signature whose only `<` is in the parameter
\* list or after it has no generic clause.
C15_GenericClause ==
    (last.op = "parse_member" /\ ~Raised(last.out) /\ FirstOf(sig, "(") > 0)
    => IF AngleBeforeParen(sig)
       THEN MatchingAngle(sig, FirstOf(sig, "<")) > 0
            => /\ last.out.generics
                     = Some(SubSeq(sig, FirstOf(sig, "<"),
                                   MatchingAngle(sig, FirstOf(sig, "<"))))
               /\ last.out.name = Before(sig, FirstOf(sig, "<"))
       ELSE ~Truthy(last.out.generics)

\* the `>` at position j of text is the head of an arrow `->`
ArrowHead(text, j) == text[j] = ">" /\ j > 1 /\ text[j - 1] = "-"

\* how many groups of one kind are open after the first i characters of
\* text: an arrow closes no group
OpenGroups(text, opener, closer, i) ==
    Cardinality({j \in 1..i : text[j] = opener})
    - Cardinality({j \in 1..i : text[j] = closer /\ ~ArrowHead(text, j)})

\* the `()`, `[]` and `<>` groups of text are balanced
BalancedGroups(text) ==
    \A pair \in {<<"(", ")">>, <<"[", "]">>, <<"<", ">">>} :
       /\ \A i \in 1..Len(text) : OpenGroups(text, pair[1], pair[2], i) >= 0
       /\ OpenGroups(text, pair[1], pair[2], Len(text)) = 0

\* the positions of the commas of text that are outside every group
CommasOutsideGroups(text) ==
    {i \in 1..Len(text) :
        /\ text[i] = ","
        /\ \A pair \in {<<"(", ")">>, <<"[", "]">>, <<"<", ">">>} :
              OpenGroups(text, pair[1], pair[2], i) = 0}

\* C17: an arrow `->` in the type of a parameter does not change where the
\* later commas split: in a parameter list whose `()`, `[]` and `<>` groups
\* are balanced every comma outside all the groups separates two parameters.
C17_ArrowKeepsCommas ==
    (last.op = "parse_parameter_list" /\ BalancedGroups(sig))
    => /\ SplitParameters(sig) = ChunksBetween(sig, CommasOutsideGroups(sig))
       /\ ~Raised(last.out)
          => Len(last.out.parameters) = Cardinality(CommasOutsideGroups(sig)) + 1
====
